---- MODULE Spec2Model ----
(***************************************************************************)
(* Model of src/app/page.tsx: the OctrafiedApp component (username, image, *)
(* submitted, isDownloading and its handlers), the asynchronous FileReader *)
(* and Image callbacks it registers, and the ErrorBoundary that wraps it.  *)
(* Strings are sequences of one-character strings so that trim(),          *)
(* startsWith() and replace() are computed, not assumed.                   *)
(***************************************************************************)
EXTENDS Integers, Sequences, FiniteSets, TLC

VARIABLES username, image, submitted, isDownloading, hasError,
          readers, exports, last

vars == <<username, image, submitted, isDownloading, hasError,
          readers, exports, last>>

(* ---------------------------- bounds ---------------------------------- *)

\* FileReader decodes and image loads that may be pending at once
MaxPending == 2

(* ------------------------ program constants --------------------------- *)

\* maxLength of the username input
MaxLength == 20
CanvasSize == 200
DrawOffset == 10
DrawSize == 180
ArcCenter == 100
ArcRadius == 90
BorderWidth == 6
\* size of a canvas element before width and height are assigned
DefaultCanvasWidth == 300
DefaultCanvasHeight == 150

(* ----------------------------- strings -------------------------------- *)

Lower == {"a","b","c","d","e","f","g","h","i","j","k","l","m",
          "n","o","p","q","r","s","t","u","v","w","x","y","z"}
Upper == {"A","B","C","D","E","F","G","H","I","J","K","L","M",
          "N","O","P","Q","R","S","T","U","V","W","X","Y","Z"}
Digit == {"0","1","2","3","4","5","6","7","8","9"}

\* the character class [a-zA-Z0-9]
AlphaNum == Lower \cup Upper \cup Digit

\* the characters String.prototype.trim strips (those the inputs use)
WhiteSpace == {" ", "\t", "\n"}

RECURSIVE TrimStart(_)
TrimStart(s) ==
    IF s # <<>> /\ Head(s) \in WhiteSpace THEN TrimStart(Tail(s)) ELSE s

RECURSIVE TrimEnd(_)
TrimEnd(s) ==
    IF s # <<>> /\ s[Len(s)] \in WhiteSpace
    THEN TrimEnd(SubSeq(s, 1, Len(s) - 1)) ELSE s

\* username.trim()
Trim(s) == TrimEnd(TrimStart(s))

\* file.type.startsWith(prefix)
StartsWith(s, prefix) ==
    /\ Len(s) >= Len(prefix)
    /\ SubSeq(s, 1, Len(prefix)) = prefix

\* error.message.includes(sub)
Includes(s, sub) ==
    \E i \in 1..(Len(s) - Len(sub) + 1) : SubSeq(s, i, i + Len(sub) - 1) = sub

ImagePrefix == <<"i","m","a","g","e","/">>

\* replace without the g flag: only the first match is replaced
Sanitize_FirstOnly(s) ==
    [i \in 1..Len(s) |->
        IF s[i] \notin AlphaNum /\ \A j \in 1..(i - 1) : s[j] \in AlphaNum
        THEN "_" ELSE s[i]]

\* username.replace(/[^a-zA-Z0-9]/g, "_")
Sanitize(s) == [i \in 1..Len(s) |-> IF s[i] \in AlphaNum THEN s[i] ELSE "_"]

FileSuffix == <<"-","o","c","t","r","a","f","i","e","d","-","p","f","p",
                ".","p","n","g">>

\* `${username.replace(/[^a-zA-Z0-9]/g, "_")}-octrafied-pfp.png`
FileName(u) == Sanitize(u) \o FileSuffix

(* ------------------------------ inputs -------------------------------- *)

\* values typed or pasted into the username input; maxLength keeps the
\* field from taking one longer than 20 characters
UsernameInputs ==
    { <<>>,
      [i \in 1..(MaxLength + 1) |-> "a"],
      <<" ", " ">>,
      <<"a","l","i","c","e">>,
      <<"r","a","y","@","0","x","!">>,
      <<" ","Z","_","9"," ">> }

TextPlain == <<"t","e","x","t","/","p","l","a","i","n">>
ImagePng  == <<"i","m","a","g","e","/","p","n","g">>
ImageJpeg == <<"i","m","a","g","e","/","j","p","e","g">>
\* a type that contains but does not begin with "image/"
NotImage  == <<"x","-","i","m","a","g","e","/","p","n","g">>

\* files the file input can deliver; data names the file's bytes
Files ==
    { [type |-> ImagePng,  data |-> "A"],
      [type |-> ImageJpeg, data |-> "B"],
      [type |-> TextPlain, data |-> "T"],
      [type |-> NotImage,  data |-> "N"],
      [type |-> <<>>,      data |-> "U"] }

\* reader.result of readAsDataURL(file): data:<type>;base64,<bytes>
DataURL(file) == [mime |-> file.type, data |-> file.data]

\* image === null
NoImage == [mime |-> <<>>, data |-> ""]

\* natural width and height of the decoded source picture
NaturalWidth(data)  == IF data = "A" THEN 640 ELSE 50
NaturalHeight(data) == IF data = "A" THEN 480 ELSE 300

(* ------------------------------ alerts -------------------------------- *)

AlertInvalidFile == "Please select a valid image file"
AlertReadError   == "Error reading file"
AlertDownload    == "Failed to download PFP. Please try again."

(* --------------------------- initial state ---------------------------- *)

\* the event handled last and what it did outside the state: the input the
\* host supplied (the FileList of an upload, the message of an error event,
\* whether getContext returned a context, whether a drawing call threw, which
\* of the pending decodes finished, oldest first), the alerts it raised and
\* the file-saves it triggered
Effect(op, arg, alerts, saved) ==
    [op |-> op, arg |-> arg, alerts |-> alerts, saved |-> saved]

Init ==
    /\ username = <<>>
    /\ image = NoImage
    /\ submitted = FALSE
    /\ isDownloading = FALSE
    /\ hasError = FALSE
    /\ readers = <<>>
    /\ exports = <<>>
    /\ last = Effect("init", <<>>, <<>>, <<>>)

(* ------------------------- OctrafiedApp state ------------------------- *)

\* the four useState values of one OctrafiedApp instance
Session(u, img, sub, down) ==
    [username |-> u, image |-> img, submitted |-> sub, isDownloading |-> down]

\* useState("") / useState(null) / useState(false) / useState(false)
DefaultSession == Session(<<>>, NoImage, FALSE, FALSE)

Current == Session(username, image, submitted, isDownloading)

SetSession(s) ==
    /\ username' = s.username
    /\ image' = s.image
    /\ submitted' = s.submitted
    /\ isDownloading' = s.isDownloading

\* the form branch of the render is shown
FormShown == ~hasError /\ ~submitted
\* the preview branch of the render is shown
PreviewShown == ~hasError /\ submitted

RemoveAt(seq, i) == SubSeq(seq, 1, i - 1) \o SubSeq(seq, i + 1, Len(seq))

(* --------------------------- Input Stage ------------------------------ *)

\* onChange of the username input: setUsername(e.target.value)
SetUsername ==
    /\ FormShown
    /\ \E v \in UsernameInputs :
        /\ Len(v) <= MaxLength
        /\ username' = v
        /\ last' = Effect("setUsername", <<>>, <<>>, <<>>)
    /\ UNCHANGED <<image, submitted, isDownloading, hasError, readers, exports>>

\* handleImageUpload testing file.type.includes("image/")
IsImageType_Includes(type) == Includes(type, ImagePrefix)

\* the test on file.type
IsImageType(type) == StartsWith(type, ImagePrefix)

\* handleImageUpload: e.target.files is empty or holds one file
HandleImageUpload ==
    /\ FormShown
    /\ \E files \in {<<>>} \cup {<<f>> : f \in Files} :
        IF files = <<>>
        THEN /\ last' = Effect("upload", files, <<>>, <<>>)
             /\ UNCHANGED readers
        ELSE IF ~IsImageType(files[1].type)
        THEN /\ last' = Effect("upload", files, <<AlertInvalidFile>>, <<>>)
             /\ UNCHANGED readers
        ELSE /\ Len(readers) + Len(exports) < MaxPending
             /\ readers' = Append(readers,
                                  [result |-> DataURL(files[1]), live |-> TRUE])
             /\ last' = Effect("upload", files, <<>>, <<>>)
    /\ UNCHANGED <<username, image, submitted, isDownloading, hasError, exports>>

\* reader.onload that never calls setImage
OnloadImage_Dropped(r, img) == img

\* reader.onload: if (reader.result) setImage(reader.result)
OnloadImage(r, img) ==
    IF r.live /\ r.result # NoImage THEN r.result ELSE img

ReaderOnload ==
    \E i \in 1..Len(readers) :
        /\ image' = OnloadImage(readers[i], image)
        /\ readers' = RemoveAt(readers, i)
        /\ last' = Effect("readerOnload", <<i>>, <<>>, <<>>)
        /\ UNCHANGED <<username, submitted, isDownloading, hasError, exports>>

\* reader.onerror: alert("Error reading file")
ReaderOnerror ==
    \E i \in 1..Len(readers) :
        /\ readers' = RemoveAt(readers, i)
        /\ last' = Effect("readerOnerror", <<>>, <<AlertReadError>>, <<>>)
        /\ UNCHANGED <<username, image, submitted, isDownloading, hasError,
                       exports>>

\* handleSubmit testing only the username
CanSubmit_NoImage(u, img) == Trim(u) # <<>>

\* handleSubmit testing username instead of username.trim()
CanSubmit_NoTrim(u, img) == u # <<>> /\ img # NoImage

\* the condition of handleSubmit: username.trim() && image
CanSubmit(u, img) == Trim(u) # <<>> /\ img # NoImage

\* handleSubmit
HandleSubmit ==
    /\ FormShown
    /\ submitted' = IF CanSubmit(username, image) THEN TRUE ELSE submitted
    /\ last' = Effect("submit", <<>>, <<>>, <<>>)
    /\ UNCHANGED <<username, image, isDownloading, hasError, readers, exports>>

\* handleReset flipping the phase instead of clearing it
ResetSession_Toggle(s) ==
    [s EXCEPT !.submitted = ~@, !.username = <<>>, !.image = NoImage,
              !.isDownloading = FALSE]

\* handleReset without setIsDownloading(false)
ResetSession_KeepsBusy(s) ==
    [s EXCEPT !.submitted = FALSE, !.username = <<>>, !.image = NoImage]

\* the four setters of handleReset applied to a session
ResetSession(s) ==
    [s EXCEPT !.submitted = FALSE, !.username = <<>>, !.image = NoImage,
              !.isDownloading = FALSE]

\* handleReset, the onClick of "Create Another"
HandleReset ==
    /\ PreviewShown
    /\ SetSession(ResetSession(Current))
    /\ last' = Effect("reset", <<>>, <<>>, <<>>)
    /\ UNCHANGED <<hasError, readers, exports>>

(* ----------------------------- Compositor ---------------------------- *)

\* document.createElement("canvas"): no drawing yet, default size
NewCanvas ==
    [width |-> DefaultCanvasWidth, height |-> DefaultCanvasHeight, ops |-> <<>>]

Draw(canvas, calls) == [canvas EXCEPT !.ops = @ \o calls]

\* downloadPfp assigning only canvasElement.width
PrepareCanvas_WidthOnly(canvas) ==
    Draw([canvas EXCEPT !.width = CanvasSize],
         << <<"clearRect", 0, 0, CanvasSize, CanvasSize>> >>)

\* canvasElement.width = 200; canvasElement.height = 200; clearRect(0,0,200,200)
PrepareCanvas(canvas) ==
    Draw([canvas EXCEPT !.width = CanvasSize, !.height = CanvasSize],
         << <<"clearRect", 0, 0, CanvasSize, CanvasSize>> >>)

\* the calls of imageElement.onload up to and including clip()
ClipCalls ==
    << <<"save">>, <<"beginPath">>,
       <<"arc", ArcCenter, ArcCenter, ArcRadius>>, <<"clip">> >>

\* context.drawImage(imageElement, 10, 10, 180, 180)
DrawImageCall(img) ==
    <<"drawImage", img.data, DrawOffset, DrawOffset, DrawSize, DrawSize>>

\* onload restoring the context only after the border is stroked
BorderCalls_RestoreLast ==
    << <<"strokeStyle", "#0d0bda">>,
       <<"lineWidth", BorderWidth>>, <<"beginPath">>,
       <<"arc", ArcCenter, ArcCenter, ArcRadius>>, <<"stroke">>,
       <<"restore">> >>

\* restore() and the border
BorderCalls ==
    << <<"restore">>, <<"strokeStyle", "#0d0bda">>,
       <<"lineWidth", BorderWidth>>, <<"beginPath">>,
       <<"arc", ArcCenter, ArcCenter, ArcRadius>>, <<"stroke">> >>

\* the body of imageElement.onload when no call throws
Composite(canvas, img) ==
    Draw(canvas, ClipCalls \o <<DrawImageCall(img)>> \o BorderCalls)

\* the statements of downloadPfp after "await processImage", in order
DownloadCalls ==
    <<"createElement", "fileName", "toDataURL", "appendChild", "click",
      "removeChild">>

\* downloadLink.download / downloadLink.href = canvasElement.toDataURL(...)
SavedFile(canvas, u) ==
    [name |-> FileName(u), width |-> canvas.width, height |-> canvas.height,
     ops |-> canvas.ops, steps |-> DownloadCalls]

\* downloadPfp testing username instead of username.trim()
ExportGuard_NoTrim(u, img) == img = NoImage \/ u = <<>>

\* the guard of downloadPfp: if (!image || !username.trim()) return
ExportGuard(u, img) == img = NoImage \/ Trim(u) = <<>>

\* a catch block that only logs
Catch_Silent == <<>>

\* the catch block: console.error and one alert
Catch == <<AlertDownload>>

\* downloadPfp without its finally block
Finally_Missing(e, down) == down

\* the finally block: setIsDownloading(false) on the instance that started
\* the export, if it is still mounted
Finally(e, down) == IF e.live THEN FALSE ELSE down

\* downloadPfp up to "await processImage"; context is what getContext returns
DownloadPfp ==
    /\ PreviewShown
    /\ ~isDownloading
    /\ \E context \in BOOLEAN :
        IF ExportGuard(username, image)
        THEN /\ last' = Effect("download", <<>>, <<>>, <<>>)
             /\ UNCHANGED <<isDownloading, exports>>
        ELSE IF ~context
        THEN /\ last' = Effect("download", <<context>>, Catch, <<>>)
             /\ isDownloading' = Finally([live |-> TRUE], TRUE)
             /\ UNCHANGED exports
        ELSE /\ Len(readers) + Len(exports) < MaxPending
             /\ exports' = Append(exports,
                    [image |-> image, username |-> username,
                     canvas |-> PrepareCanvas(NewCanvas), live |-> TRUE])
             /\ isDownloading' = TRUE
             /\ last' = Effect("download", <<context>>, <<>>, <<>>)
    /\ UNCHANGED <<username, image, submitted, hasError, readers>>

\* onload and continuation reading image and username as they are when the
\* image has loaded, not as downloadPfp was called with
ImageOnload_CurrentValues ==
    \E i \in 1..Len(exports), throws \in BOOLEAN :
        LET e == exports[i] IN
        /\ last' = IF throws
                   THEN Effect("imageOnload", <<throws>>, Catch, <<>>)
                   ELSE Effect("imageOnload", <<throws>>, <<>>,
                          <<SavedFile(Composite(e.canvas, image), username)>>)
        /\ isDownloading' = Finally(e, isDownloading)
        /\ exports' = RemoveAt(exports, i)
        /\ UNCHANGED <<username, image, submitted, hasError, readers>>

\* imageElement.onload, then the rest of downloadPfp after the await;
\* throws: a call inside onload throws and the promise is rejected
ImageOnload ==
    \E i \in 1..Len(exports), throws \in BOOLEAN :
        LET e == exports[i] IN
        /\ last' = IF throws
                   THEN Effect("imageOnload", <<throws>>, Catch, <<>>)
                   ELSE Effect("imageOnload", <<throws>>, <<>>,
                          <<SavedFile(Composite(e.canvas, e.image), e.username)>>)
        /\ isDownloading' = Finally(e, isDownloading)
        /\ exports' = RemoveAt(exports, i)
        /\ UNCHANGED <<username, image, submitted, hasError, readers>>

\* imageElement.onerror: reject, catch, finally
ImageOnerror ==
    \E i \in 1..Len(exports) :
        LET e == exports[i] IN
        /\ last' = Effect("imageOnerror", <<>>, Catch, <<>>)
        /\ isDownloading' = Finally(e, isDownloading)
        /\ exports' = RemoveAt(exports, i)
        /\ UNCHANGED <<username, image, submitted, hasError, readers>>

(* --------------------------- ErrorBoundary ---------------------------- *)

Sender == <<"s","e","n","d","e","r">>
Wallet == <<"w","a","l","l","e","t">>

\* messages of the error events the window can deliver
ErrorMessages ==
    { <<"n","o"," ">> \o Sender,
      Wallet \o <<"!">>,
      <<"o","o","p","s">> }

\* handleError ignoring only messages that mention "sender"
Ignored_SenderOnly(message) == Includes(message, Sender)

Ignored(message) == Includes(message, Sender) \/ Includes(message, Wallet)

\* the fallback replaces the children: the OctrafiedApp instance is unmounted
\* and its pending callbacks no longer reach a mounted instance
Detach(seq) == [i \in 1..Len(seq) |-> [seq[i] EXCEPT !.live = FALSE]]

\* handleError, the window "error" listener
HandleError ==
    \E message \in ErrorMessages :
        /\ last' = Effect("error", <<message>>, <<>>, <<>>)
        /\ IF Ignored(message) \/ hasError
           THEN UNCHANGED <<username, image, submitted, isDownloading, hasError,
                            readers, exports>>
           ELSE /\ hasError' = TRUE
                /\ SetSession(DefaultSession)
                /\ readers' = Detach(readers)
                /\ exports' = Detach(exports)

\* onClick of "Try Again": setHasError(false) mounts a new OctrafiedApp
TryAgain ==
    /\ hasError
    /\ hasError' = FALSE
    /\ SetSession(DefaultSession)
    /\ last' = Effect("tryAgain", <<>>, <<>>, <<>>)
    /\ UNCHANGED <<readers, exports>>

(* --------------------------- specification ---------------------------- *)

Next ==
    \/ SetUsername
    \/ HandleImageUpload
    \/ ReaderOnload
    \/ ReaderOnerror
    \/ HandleSubmit
    \/ HandleReset
    \/ DownloadPfp
    \/ ImageOnload
    \/ ImageOnerror
    \/ HandleError
    \/ TryAgain

Spec == Init /\ [][Next]_vars

\* downloadPfp is a function of the image and username of the render it was
\* created in: the component starting from any values of its state, so that
\* the handler is also called with an absent image or a blank username
AnySessionInit ==
    /\ username \in {u \in UsernameInputs : Len(u) <= MaxLength}
    /\ image \in {NoImage}
                 \cup {DataURL(f) : f \in {g \in Files : IsImageType(g.type)}}
    /\ submitted \in BOOLEAN
    /\ isDownloading = FALSE
    /\ hasError = FALSE
    /\ readers = <<>>
    /\ exports = <<>>
    /\ last = Effect("init", <<>>, <<>>, <<>>)

AnySessionSpec == AnySessionInit /\ [][Next]_vars

\* the host eventually fires onload or onerror of an image whose src was set
FairSpec == Spec /\ WF_vars(ImageOnload \/ ImageOnerror)

(* ------------------------------ claims -------------------------------- *)

\* C1: a handled submit moves the phase from Editing to Previewing exactly
\* when the stored username is non-empty after trimming and an image is
\* present; username, image and the busy flag are never changed by it, and
\* when the condition fails the phase is unchanged too.
C1_SubmitIffValid ==
    [][ last'.op = "submit" =>
          /\ (~submitted /\ submitted')
                <=> (Trim(username) # <<>> /\ image # NoImage)
          /\ (Trim(username) = <<>> \/ image = NoImage)
                => submitted' = submitted
          /\ username' = username
          /\ image' = image
          /\ isDownloading' = isDownloading ]_vars

\* a submit was handled with both fields valid and the preview is shown
C1_Witness ==
    /\ last.op = "submit"
    /\ submitted
    /\ Trim(username) # <<>>
    /\ image # NoImage

\* C2: an upload of a file whose type does not begin with "image/" raises
\* the invalid-file alert, starts no decode and leaves image, username and
\* the phase as they were.
C2_NonImageRejected ==
    [][ ( /\ last'.op = "upload"
          /\ last'.arg # <<>>
          /\ ~StartsWith(last'.arg[1].type, ImagePrefix) )
        => /\ last'.alerts = <<AlertInvalidFile>>
           /\ readers' = readers
           /\ image' = image
           /\ username' = username
           /\ submitted' = submitted ]_vars

\* a text/plain file was just refused while no image is set
C2_Witness ==
    /\ last.op = "upload"
    /\ last.arg # <<>>
    /\ last.arg[1].type = TextPlain
    /\ last.alerts = <<AlertInvalidFile>>
    /\ image = NoImage
    /\ ~submitted

\* C3: under FairSpec (the host fires onload or onerror of every image it
\* was given) a set busy flag is always cleared again: no export leaves the
\* component stuck in Exporting, whichever way the export ends.
C3_BusyCleared == isDownloading ~> ~isDownloading

\* an export just ended by a load error and the preview is idle again
C3_Witness ==
    /\ last.op = "imageOnerror"
    /\ submitted
    /\ ~isDownloading

\* exports started by the mounted OctrafiedApp and still awaiting their image
InFlight == {i \in 1..Len(exports) : exports[i].live}

\* C4: at most one export of the mounted component is in flight at a time.
C4_AtMostOneExport == Cardinality(InFlight) <= 1

\* C5: the state right after a handled reset is the default state, and
\* handleReset maps every reachable state to the default state.
C5_ResetToDefault ==
    /\ ResetSession(Current) = DefaultSession
    /\ last.op = "reset" => Current = DefaultSession

\* reset was handled while an export was awaiting its image
C5_Witness ==
    /\ last.op = "reset"
    /\ InFlight # {}
    /\ Current = DefaultSession

\* the export whose callback fired in this step, as it was while pending
Completed(i) == i \in 1..Len(exports) /\ exports' = RemoveAt(exports, i)

RayName ==
    <<"r","a","y","_","0","x","_","-","o","c","t","r","a","f","i","e","d",
      "-","p","f","p",".","p","n","g">>
AliceName ==
    <<"a","l","i","c","e","-","o","c","t","r","a","f","i","e","d",
      "-","p","f","p",".","p","n","g">>

\* C6: the name of every saved file is the username the export was started
\* with, each character outside [a-zA-Z0-9] replaced by "_" in place (same
\* length, alphanumerics kept, nothing trimmed), followed by
\* "-octrafied-pfp.png"; "ray@0x!" gives "ray_0x_-octrafied-pfp.png" and
\* "alice" gives "alice-octrafied-pfp.png".
C6_FileName ==
    [][ /\ FileName(<<"r","a","y","@","0","x","!">>) = RayName
        /\ FileName(<<"a","l","i","c","e">>) = AliceName
        /\ last'.saved # <<>> =>
             \E i \in 1..Len(exports) :
                LET u == exports[i].username
                    n == last'.saved[1].name
                IN /\ Completed(i)
                   /\ Len(n) = Len(u) + 18
                   /\ \A k \in 1..Len(u) :
                        n[k] = IF u[k] \in AlphaNum THEN u[k] ELSE "_"
                   /\ SubSeq(n, Len(u) + 1, Len(n)) = FileSuffix ]_vars

\* a file was just saved under the name derived from "ray@0x!"
C6_Witness ==
    /\ last.op = "imageOnload"
    /\ last.saved # <<>>
    /\ last.saved[1].name = RayName

\* the step is an export ending in failure: no drawing context, a load
\* error, or an exception while drawing
ExportFailed ==
    \/ /\ last'.op = "download"
       /\ ~(image = NoImage \/ Trim(username) = <<>>)
       /\ last'.arg = <<FALSE>>
    \/ /\ last'.op = "imageOnload"
       /\ last'.arg = <<TRUE>>
    \/ last'.op = "imageOnerror"

\* C7: a failing export raises exactly the one download alert, saves no
\* file, starts no further export, and leaves username, image and the phase
\* unchanged.
C7_FailureAlertsOnce ==
    [][ ExportFailed =>
          /\ last'.alerts = <<AlertDownload>>
          /\ last'.saved = <<>>
          /\ Len(exports') <= Len(exports)
          /\ username' = username
          /\ image' = image
          /\ submitted' = submitted ]_vars

\* an exception while drawing just ended an export of the shown preview
C7_Witness ==
    /\ last.op = "imageOnload"
    /\ last.arg = <<TRUE>>
    /\ last.alerts = <<AlertDownload>>
    /\ submitted

\* the decode whose callback fired in this step, as it was while pending
Decoded(i) == i \in 1..Len(readers) /\ readers' = RemoveAt(readers, i)

\* C8: accepting an image/* file only starts a decode; a failed decode
\* raises the read-error alert and keeps image; a successful decode replaces
\* image by the decoded data URL of that file (for the OctrafiedApp instance
\* that accepted the upload, while it is mounted); none of the three steps
\* changes username or the phase.
C8_ImageSetOnDecode ==
    [][ /\ ( /\ last'.op = "upload"
             /\ last'.arg # <<>>
             /\ StartsWith(last'.arg[1].type, ImagePrefix) )
           => /\ image' = image
              /\ last'.alerts = <<>>
              /\ readers' = Append(readers,
                    [result |-> [mime |-> last'.arg[1].type,
                                 data |-> last'.arg[1].data],
                     live |-> TRUE])
        /\ last'.op = "readerOnerror"
           => /\ image' = image
              /\ last'.alerts = <<AlertReadError>>
              /\ \E i \in 1..Len(readers) : Decoded(i)
        /\ last'.op = "readerOnload"
           => /\ last'.alerts = <<>>
              /\ \E i \in 1..Len(readers) :
                    /\ Decoded(i)
                    /\ image' = IF readers[i].live THEN readers[i].result
                                ELSE image
        /\ last'.op \in {"upload", "readerOnerror", "readerOnload"}
           => username' = username /\ submitted' = submitted ]_vars

\* a decode just failed while an earlier image is set: the image is kept
C8_Witness ==
    /\ last.op = "readerOnerror"
    /\ last.alerts = <<AlertReadError>>
    /\ image # NoImage

\* C9: applying handleReset to the state a handleReset produced changes
\* nothing: from every reachable state two resets give what one gives.
C9_ResetIdempotent ==
    ResetSession(ResetSession(Current)) = ResetSession(Current)

\* the state right after a reset, on which a second reset has no effect
C9_Witness ==
    /\ last.op = "reset"
    /\ ResetSession(Current) = Current

\* C10: every saved file comes from a canvas 200 wide and 200 high, whatever
\* the natural size of the source, and the source is drawn exactly once,
\* into the square of side 180 at (10, 10).
C10_FixedSize ==
    last.saved # <<>> =>
        LET f == last.saved[1]
            drawn == {k \in 1..Len(f.ops) : f.ops[k][1] = "drawImage"}
        IN /\ f.width = 200
           /\ f.height = 200
           /\ Cardinality(drawn) = 1
           /\ \A k \in drawn :
                /\ f.ops[k][2] \in {"A", "B"}
                /\ SubSeq(f.ops[k], 3, 6) = <<10, 10, 180, 180>>

\* a file was saved whose source is neither 200 wide nor 200 high
C10_Witness ==
    /\ last.saved # <<>>
    /\ \E k \in 1..Len(last.saved[1].ops) :
          /\ last.saved[1].ops[k][1] = "drawImage"
          /\ NaturalWidth(last.saved[1].ops[k][2]) # 200
          /\ NaturalHeight(last.saved[1].ops[k][2]) # 200
          /\ NaturalWidth(last.saved[1].ops[k][2])
                # NaturalHeight(last.saved[1].ops[k][2])

\* C11: whenever an export of the mounted component is awaiting its image,
\* the busy flag is set.
C11_BusyWhileInFlight == InFlight # {} => isDownloading

\* C12: while the preview is shown the username is non-empty after trimming
\* and at most 20 characters long, and an image is set.
C12_PreviewValid ==
    submitted =>
        /\ Trim(username) # <<>>
        /\ Len(username) <= 20
        /\ image # NoImage

\* a decode finished late, while the preview was already shown
C12_Witness ==
    /\ submitted
    /\ last.op = "readerOnload"
    /\ Trim(username) # <<>>
    /\ image # NoImage

\* C13: a decode that was pending when reset was handled and finishes as
\* the next event leaves image unset: no upload was accepted since the reset.
C13_StaleDecodeIgnored ==
    [][ (last.op = "reset" /\ last'.op = "readerOnload")
            => image' = NoImage ]_vars

\* C14: of two accepted uploads of the mounted component whose decodes both
\* succeed, the later upload's content is the image once both have finished:
\* when the later one finished first, the earlier one finishing next does
\* not change image.
C14_LaterUploadWins ==
    [][ ( /\ last.op = "readerOnload"
          /\ last.arg = <<2>>
          /\ Len(readers) = 1
          /\ readers[1].live
          /\ last'.op = "readerOnload" )
        => image' = image ]_vars

\* C15: a pending export is removed only by its own onload or onerror; no
\* other event (reset included) drops it or changes the image, username or
\* canvas it holds; and the file it saves is named from the username and
\* drawn from the image downloadPfp was called with.
C15_ExportNotCancelled ==
    [][ /\ last'.op \notin {"imageOnload", "imageOnerror"}
           => /\ Len(exports') >= Len(exports)
              /\ \A i \in 1..Len(exports) :
                    /\ exports'[i].image = exports[i].image
                    /\ exports'[i].username = exports[i].username
                    /\ exports'[i].canvas = exports[i].canvas
        /\ last'.op \in {"imageOnload", "imageOnerror"}
           => \E i \in 1..Len(exports) : Completed(i)
        /\ last'.saved # <<>>
           => \E i \in 1..Len(exports) :
                LET f == last'.saved[1] IN
                /\ Completed(i)
                /\ f.name = FileName(exports[i].username)
                /\ \E k \in 1..Len(f.ops) :
                      /\ f.ops[k][1] = "drawImage"
                      /\ f.ops[k][2] = exports[i].image.data ]_vars

\* a file was saved after the session it was requested in had been cleared
C15_Witness ==
    /\ last.op = "imageOnload"
    /\ last.saved # <<>>
    /\ ~hasError
    /\ username = <<>>
    /\ image = NoImage
    /\ Len(last.saved[1].name) > 18

\* the calls of one finished export in the order they were made: those on
\* the drawing context, then those that build and click the download link
Trace(f) == [k \in 1..Len(f.ops) |-> f.ops[k][1]] \o f.steps

\* the position of the only call named n in a trace, 0 when there is none
Pos(t, n) ==
    IF Cardinality({k \in 1..Len(t) : t[k] = n}) = 1
    THEN CHOOSE k \in 1..Len(t) : t[k] = n
    ELSE 0

\* the drawing part of the claimed order: cleared, then save, clip path
\* (100,100,90), clip, drawImage, restore, border style, path, stroke
DrawnInOrder(f) ==
    /\ Len(f.ops) = 12
    /\ [k \in 1..12 |-> f.ops[k][1]]
         = <<"clearRect", "save", "beginPath", "arc", "clip", "drawImage",
             "restore", "strokeStyle", "lineWidth", "beginPath", "arc",
             "stroke">>
    /\ f.ops[4] = <<"arc", 100, 100, 90>>
    /\ f.ops[8] = <<"strokeStyle", "#0d0bda">>
    /\ f.ops[9] = <<"lineWidth", 6>>
    /\ f.ops[11] = <<"arc", 100, 100, 90>>

\* before its image has loaded an export has only sized and cleared its canvas
OnlyCleared ==
    \A i \in 1..Len(exports) :
        /\ Len(exports[i].canvas.ops) = 1
        /\ exports[i].canvas.ops[1][1] = "clearRect"

\* C16 as claimed: ... the border stroked, then the canvas serialized, then
\* the file name derived, then the file-save triggered.
C16_SerializeThenName ==
    /\ OnlyCleared
    /\ last.saved # <<>> =>
        LET f == last.saved[1] t == Trace(f) IN
        /\ DrawnInOrder(f)
        /\ Pos(t, "stroke") < Pos(t, "toDataURL")
        /\ Pos(t, "toDataURL") < Pos(t, "fileName")
        /\ Pos(t, "fileName") < Pos(t, "click")

\* C16 as the code orders it: the canvas is sized and cleared before the
\* load is awaited; on load save, clip path, clip, drawImage, restore, then
\* the border (width 6, #0d0bda) stroked after the restore; then the file
\* name is derived, then the canvas is serialized, then the file-save is
\* triggered: name, serialization and save all come after the stroke.
C16_NameThenSerialize ==
    /\ OnlyCleared
    /\ last.saved # <<>> =>
        LET f == last.saved[1] t == Trace(f) IN
        /\ DrawnInOrder(f)
        /\ Pos(t, "drawImage") < Pos(t, "restore")
        /\ Pos(t, "restore") < Pos(t, "stroke")
        /\ Pos(t, "stroke") < Pos(t, "fileName")
        /\ Pos(t, "fileName") < Pos(t, "toDataURL")
        /\ Pos(t, "toDataURL") < Pos(t, "click")

\* a file was just saved while another export is still awaiting its image
C16_Witness ==
    /\ last.op = "imageOnload"
    /\ last.saved # <<>>
    /\ exports # <<>>

\* C17: downloadPfp called with no image or with a username that is blank
\* after trimming does nothing: the busy flag is not set, no canvas or
\* context is asked for, no export is started, no alert is raised, no file
\* is saved, and username, image and the phase are unchanged.
C17_GuardedNoOp ==
    [][ ( /\ last'.op = "download"
          /\ (image = NoImage \/ Trim(username) = <<>>) )
        => /\ isDownloading' = isDownloading
           /\ exports' = exports
           /\ last'.arg = <<>>
           /\ last'.alerts = <<>>
           /\ last'.saved = <<>>
           /\ username' = username
           /\ image' = image
           /\ submitted' = submitted ]_vars

\* downloadPfp was just called with an image and a whitespace-only username
C17_Witness ==
    /\ last.op = "download"
    /\ last.arg = <<>>
    /\ submitted
    /\ image # NoImage
    /\ username # <<>>
    /\ Trim(username) = <<>>
    /\ ~isDownloading
    /\ exports = <<>>

\* the error event handled in this step carries a message that contains
\* "sender" or "wallet"
WalletNoise ==
    \/ Includes(last'.arg[1], <<"s","e","n","d","e","r">>)
    \/ Includes(last'.arg[1], <<"w","a","l","l","e","t">>)

\* C18: an error event whose message contains "sender" or "wallet" leaves
\* the fallback state as it is; any other error event shows the fallback;
\* the fallback appears by nothing but such an error event and disappears
\* by nothing but Try Again, which always hides it. Hence the fallback is
\* shown exactly when a not-ignored error event was handled since the last
\* Try Again.
C18_FallbackExactly ==
    [][ /\ last'.op = "error"
           => hasError' = IF WalletNoise THEN hasError ELSE TRUE
        /\ last'.op = "tryAgain" => hasError /\ ~hasError'
        /\ (~hasError /\ hasError')
           => last'.op = "error" /\ ~WalletNoise
        /\ (hasError /\ ~hasError') => last'.op = "tryAgain" ]_vars

\* a "wallet" error was just handled and the normal view is still shown
C18_Witness ==
    /\ last.op = "error"
    /\ Includes(last.arg[1], Wallet)
    /\ ~Includes(last.arg[1], Sender)
    /\ ~hasError
    /\ submitted

====
